---- MODULE Spec2Model ----
(***************************************************************************)
(* A model of gnmic's InfluxDB output                                      *)
(* (outputs/influxdb_output/influxdb_output.go): the startup probe loop of *)
(* Init, the periodic health monitor, the writer worker, the Write entry   *)
(* point and Close, as concurrent processes over the shared fields wasup,  *)
(* reset, startSig and the unbuffered channel eventChan.                   *)
(*                                                                         *)
(* Channels.  reset and startSig hold channel values.  A channel value is  *)
(* a positive number; 0 stands for "no channel held".  make(chan) takes    *)
(* the smallest number that no field and no waiting goroutine still holds  *)
(* (a channel nobody holds any more cannot be told from a fresh one), and  *)
(* resetClosed / startClosed are the channel values that have been closed. *)
(* A select evaluates its channel operands once, on entry (Go spec,        *)
(* "Select statements"), so a goroutine in a select holds the value the    *)
(* field had when it entered, not the field's present value.               *)
(*                                                                         *)
(* Select.  On entry a select takes any one of the cases that are ready;   *)
(* when none is, the goroutine parks, and the first channel operation that *)
(* makes a case ready (a close, a send or receive by a peer, an error      *)
(* delivered by the writer) wakes it with that case.                       *)
(***************************************************************************)
EXTENDS Integers, FiniteSets, Sequences, TLC

\* Concurrent callers of Write.
NumProducers == 1
\* The most events one Write call carries.
MaxEvents == 2
\* Init's retries are counted up to this number; the count stays there.
MaxRetries == 2
\* So are the recoveries a worker has not yet rebuilt its writer for.
MaxCredit == 1
\* The number of writer workers Init starts.
numWorkers == 1

\* Lines 20-23: the defaults.  Durations are counted in milliseconds here
\* (time.Duration counts nanoseconds, beyond the numbers TLC computes with).
Second == 1000
defaultURL == "http://localhost:8086"
defaultBatchSize == 1000
defaultFlushTimer == 10 * Second
defaultHealthCheckPeriod == 30 * Second

\* The values a decoded configuration is drawn from: the zero value of each
\* field, the default itself and other values (a Duration may be negative).
URLs == {"", defaultURL, "https://influx:9999"}
BatchSizes == {0, 1, defaultBatchSize}
Durations == {0 - Second, 0, 1, defaultFlushTimer, defaultHealthCheckPeriod}
\* Config, lines 50-61, the fields that have a default.
Configs == [URL : URLs, BatchSize : BatchSizes,
            FlushTimer : Durations, HealthCheckPeriod : Durations]
\* &Config{}, line 31.
ZeroConfig == [URL |-> "", BatchSize |-> 0, FlushTimer |-> 0, HealthCheckPeriod |-> 0]

Workers == 0 .. (numWorkers - 1)
Producers == 1 .. NumProducers
Events == Producers \X (1 .. MaxEvents)
\* Enough channel values for the field and every goroutine that can hold one.
Chans == 1 .. (NumProducers + numWorkers + 1)
\* What i.client.Health returns: an error, a report json.Marshal rejects,
\* a report, or no report.
ProbeOutcomes == {"err", "malformed", "ok", "nil"}
NoEvent == <<0, 0>>

VARIABLES
    Cfg,          \* InfluxDBOutput.Cfg, the fields that have a default
    cfgIn,        \* what outputs.DecodeConfig (line 82) puts into Cfg from Init's cfg
    wasup,        \* InfluxDBOutput.wasup
    reset,        \* InfluxDBOutput.reset: the channel value the field holds
    startSig,     \* InfluxDBOutput.startSig
    resetClosed,  \* the closed channel values among those reset has held
    startClosed,  \* the closed channel values among those startSig has held
    doneBy,       \* who made the context of line 112 done: "none", "Close", "parent"
    initpc,       \* where Init is
    monpc,        \* where healthCheck is
    hpc,          \* where health is, for whichever of the two called it
    retries,      \* Init's passes through line 120 (goto CRCLIENT) so far
    wpc,          \* where each worker is
    firstStart,   \* worker's firstStart
    writer,       \* worker's writer handle (0: none yet)
    wref,         \* the reset channel a parked worker waits on
    sref,         \* the startSig channel a worker waits on at START
    inhand,       \* the event a worker has received and not yet submitted
    errPending,   \* an error waits on the writer's Errors() channel
    dirty,        \* the writer holds points that can still fail
    ppc,          \* where each Write call is
    pctx,         \* the caller's context of each Write call is done
    plen,         \* the number of events of the call
    pidx,         \* the event the call is delivering
    pref,         \* the reset channel a parked Write waits on
    pexit,        \* how the call returned
    submitted,    \* how often each event was passed to WritePoint
    \* History, read by the properties only.
    lastObs,      \* the signal each worker observed last
    owed,         \* the worker was parked on the reset channel at its latest close
    obs,          \* the worker's passes through line 238 since that close
    downSeen,     \* reset was closed after the latest close of startSig
    credit,       \* closes of startSig that followed a close of reset, less the
                  \* worker's passes through line 225 after a wait
    cancelParked, \* the worker was parked in its select when the context became done
    missed,       \* startSig was replaced between the worker's line 238 and its line 222
    unseen        \* the worker was in its loop (lines 227-244) at the latest close of
                  \* reset and has not passed line 238 since

sinkVars == <<wasup, reset, startSig, resetClosed, startClosed, doneBy>>
ctlVars == <<initpc, monpc, hpc, retries>>
workerVars == <<wpc, firstStart, writer, wref, sref, inhand, errPending, dirty>>
writeVars == <<ppc, pctx, plen, pidx, pref, pexit>>
histVars == <<lastObs, owed, obs, downSeen, credit, cancelParked, missed, unseen>>
cfgVars == <<Cfg, cfgIn>>
vars == <<cfgVars, sinkVars, ctlVars, workerVars, writeVars, submitted, histVars>>

\* ctx.Done() of the context made at line 112 is closed.
cancelled == doneBy # "none"

----------------------------------------------------------------------------
\* Channel helpers.

Min(S) == CHOOSE x \in S : \A y \in S : x <= y

\* The reset channels somebody holds, given the field and the waiters' values.
HeldReset(field, wr, pr) ==
    ({field} \cup {wr[w] : w \in Workers} \cup {pr[p] : p \in Producers}) \ {0}

HeldStart(field, sr) == ({field} \cup {sr[w] : w \in Workers}) \ {0}

\* make(chan struct{}): a channel value nobody holds.
NewChan(held) == Min(Chans \ held)

\* The goroutines parked in a select, and so ready to be woken.
\* A panic that no goroutine recovers ends the process, and every goroutine
\* with it: the panic of time.NewTicker on a period that is not positive
\* (line 172) and the panic of a close of a closed channel (lines 191, 207).
Alive == monpc # "panic" /\ hpc # "panic"

ParkedWorkers == {w \in Workers : wpc[w] = "parked"}
ParkedWrites == {p \in Producers : ppc[p] = "parked"}

----------------------------------------------------------------------------
\* The state after the factory registered in init() has run.
InitState(c) ==
    /\ Cfg = ZeroConfig
    /\ cfgIn = c
    /\ wasup = FALSE
    /\ reset = 1
    /\ startSig = 1
    /\ resetClosed = {}
    /\ startClosed = {}
    /\ doneBy = "none"
    /\ initpc = "start"
    /\ monpc = "none"
    /\ hpc = "idle"
    /\ retries = 0
    /\ wpc = [w \in Workers |-> "none"]
    /\ firstStart = [w \in Workers |-> TRUE]
    /\ writer = [w \in Workers |-> 0]
    /\ wref = [w \in Workers |-> 0]
    /\ sref = [w \in Workers |-> 0]
    /\ inhand = [w \in Workers |-> NoEvent]
    /\ errPending = [w \in Workers |-> FALSE]
    /\ dirty = [w \in Workers |-> FALSE]
    /\ ppc = [p \in Producers |-> "idle"]
    /\ pctx = [p \in Producers |-> FALSE]
    /\ plen = [p \in Producers |-> 0]
    /\ pidx = [p \in Producers |-> 0]
    /\ pref = [p \in Producers |-> 0]
    /\ pexit = [p \in Producers |-> "none"]
    /\ submitted = [e \in Events |-> 0]
    /\ lastObs = [w \in Workers |-> "none"]
    /\ owed = [w \in Workers |-> FALSE]
    /\ obs = [w \in Workers |-> 0]
    /\ downSeen = FALSE
    /\ credit = [w \in Workers |-> 0]
    /\ cancelParked = [w \in Workers |-> FALSE]
    /\ missed = [w \in Workers |-> FALSE]
    /\ unseen = [w \in Workers |-> FALSE]

\* Init is handed a configuration that leaves every field at its zero value,
Init == InitState(ZeroConfig)

\* or any configuration.
InitAnyConfig == \E c \in Configs : InitState(c)

----------------------------------------------------------------------------
\* Init, lines 78-134.

\* ApplyDefaults without lines 96-98: HealthCheckPeriod is left as decoded.
ApplyDefaultsNoPeriod(c) ==
    [URL |-> IF c.URL = "" THEN defaultURL ELSE c.URL,
     BatchSize |-> IF c.BatchSize = 0 THEN defaultBatchSize ELSE c.BatchSize,
     FlushTimer |-> IF c.FlushTimer = 0 THEN defaultFlushTimer ELSE c.FlushTimer,
     HealthCheckPeriod |-> c.HealthCheckPeriod]

\* Lines 87-98: a field that holds its zero value gets its default.
ApplyDefaults(c) ==
    [URL |-> IF c.URL = "" THEN defaultURL ELSE c.URL,
     BatchSize |-> IF c.BatchSize = 0 THEN defaultBatchSize ELSE c.BatchSize,
     FlushTimer |-> IF c.FlushTimer = 0 THEN defaultFlushTimer ELSE c.FlushTimer,
     HealthCheckPeriod |-> IF c.HealthCheckPeriod = 0
                           THEN defaultHealthCheckPeriod ELSE c.HealthCheckPeriod]

\* Lines 78-112: options, config decoding and defaults, the cancellable
\* context.  A config that does not decode makes Init return the error.
InitBegin(decoded) ==
    /\ Alive
    /\ initpc = "start"
    /\ initpc' = IF decoded THEN "CRCLIENT" ELSE "failed"
    /\ Cfg' = IF decoded THEN ApplyDefaults(cfgIn) ELSE Cfg
    /\ UNCHANGED <<cfgIn, sinkVars, monpc, hpc, retries, workerVars, writeVars,
                   submitted, histVars>>

\* Lines 113-116: (after the sleep of line 119, on a retry) make the client
\* and call health.
InitProbe ==
    /\ Alive
    /\ initpc = "CRCLIENT"
    /\ initpc' = "inHealth"
    /\ hpc' = "probe"
    /\ UNCHANGED <<cfgVars, sinkVars, monpc, retries, workerVars, writeVars, submitted,
                   histVars>>

\* Lines 122-133: health returned nil.  Init starts the health monitor and
\* the workers and returns; the goroutines only start here, each runs in
\* steps of its own, the monitor's first being the ticker of line 172.  The goroutine of lines 129-132 has none: it calls Close
\* once the context is done, and cancelling a cancelled context does nothing.
InitSpawn ==
    /\ Alive
    /\ initpc = "spawn"
    /\ wasup' = TRUE
    /\ monpc' = "newTicker"
    /\ wpc' = [w \in Workers |-> "start"]
    /\ initpc' = "returned"
    /\ retries' = 0
    /\ UNCHANGED <<cfgVars, reset, startSig, resetClosed, startClosed, doneBy, hpc,
                   firstStart, writer, wref, sref, inhand, errPending, dirty,
                   writeVars, submitted,
                   histVars>>

----------------------------------------------------------------------------
\* healthCheck, lines 171-181.

\* Line 172: the monitor creates its ticker.  time.NewTicker panics on a
\* period that is not positive; Init defaults a period of zero only (lines
\* 96-98), so a negative one gets here.  Nothing recovers the panic: the
\* process ends before the select of line 174 is reached.
HealthCheckStart ==
    /\ Alive
    /\ monpc = "newTicker"
    /\ monpc' = IF Cfg.HealthCheckPeriod > 0 THEN "select" ELSE "panic"
    /\ UNCHANGED <<cfgVars, sinkVars, initpc, hpc, retries, workerVars, writeVars,
                   submitted, histVars>>

\* Line 175-176: the ticker fired; probe.  With the context done as well the
\* select may still take this case.
HealthCheckTick ==
    /\ Alive
    /\ monpc = "select"
    /\ monpc' = "inHealth"
    /\ hpc' = "probe"
    /\ UNCHANGED <<cfgVars, sinkVars, initpc, retries, workerVars, writeVars, submitted,
                   histVars>>

\* Lines 177-178.
HealthCheckDone ==
    /\ Alive
    /\ monpc = "select"
    /\ cancelled
    /\ monpc' = "returned"
    /\ UNCHANGED <<cfgVars, sinkVars, initpc, hpc, retries, workerVars, writeVars, submitted,
                   histVars>>

----------------------------------------------------------------------------
\* health, lines 183-215, run by Init or by healthCheck.

\* HealthReturn with Init not looking at the error (lines 117-121 left out).
HealthReturnIgnoresError(ok) ==
    /\ hpc' = "idle"
    /\ initpc' = IF initpc = "inHealth" THEN "spawn" ELSE initpc
    /\ monpc' = IF monpc = "inHealth" THEN "select" ELSE monpc

\* health returns to its caller: Init sleeps and retries on an error and goes
\* on to line 122 otherwise; healthCheck ignores the result.
HealthReturn(ok) ==
    /\ hpc' = "idle"
    /\ initpc' = IF initpc = "inHealth"
                 THEN (IF ok THEN "spawn" ELSE "CRCLIENT")
                 ELSE initpc
    /\ monpc' = IF monpc = "inHealth" THEN "select" ELSE monpc

FailedOutcome(o) == o \in {"err", "malformed"}

\* Line 184, and the branch taken on its result (185-187, 193-198, 204, 210).
\* A request under a context that is done fails.
HealthProbe(o) ==
    /\ Alive
    /\ hpc = "probe"
    /\ cancelled => o = "err"
    /\ IF FailedOutcome(o)
       THEN /\ retries' = IF initpc = "inHealth" /\ retries < MaxRetries
                           THEN retries + 1 ELSE retries
            /\ IF wasup
               THEN /\ hpc' = "closeReset"
                    /\ UNCHANGED <<initpc, monpc>>
               ELSE HealthReturn(FALSE)
            /\ UNCHANGED wasup
       ELSE /\ wasup' = TRUE
            /\ hpc' = "closeStart"
            /\ UNCHANGED <<initpc, monpc, retries>>
    /\ UNCHANGED <<cfgVars, reset, startSig, resetClosed, startClosed, doneBy,
                   workerVars, writeVars, submitted,
                   histVars>>

\* HealthCloseReset with lines 188 and 189 in the other order: the field gets
\* its new channel first and that one is closed, so whoever is parked on the
\* old one is not woken.
HealthCloseResetAfterMake ==
    /\ Alive
    /\ hpc = "closeReset"
    /\ reset' = NewChan(HeldReset(reset, wref, pref))
    /\ resetClosed' = (resetClosed \cup {reset'}) \cap HeldReset(reset', wref, pref)
    /\ hpc' = "makeReset"
    /\ owed' = [w \in Workers |-> wpc[w] = "parked" /\ wref[w] = reset]
    /\ obs' = [w \in Workers |-> 0]
    /\ downSeen' = TRUE
    /\ unseen' = [w \in Workers |->
                    wpc[w] \in {"select", "parked", "gotEv", "gotErr", "gotReset"}]
    /\ UNCHANGED <<cfgVars, wasup, startSig, startClosed, doneBy, initpc, monpc, retries,
                   workerVars, writeVars, submitted, lastObs, credit, cancelParked, missed>>

\* Lines 188 and 199: close(i.reset).  Every goroutine parked on this channel
\* value wakes with its reset case: a worker goes on to line 238, a Write
\* returns (line 156).  A close of a closed channel panics: health stops at
\* "panic" and the process ends.
HealthCloseReset ==
    /\ Alive
    /\ hpc = "closeReset"
    /\ IF reset \in resetClosed
       THEN /\ hpc' = "panic"
            /\ UNCHANGED <<resetClosed, wpc, wref, ppc, pref, pexit>>
       ELSE /\ wpc' = [w \in Workers |->
                        IF wpc[w] = "parked" /\ wref[w] = reset THEN "gotReset" ELSE wpc[w]]
            /\ wref' = [w \in Workers |->
                        IF wpc[w] = "parked" /\ wref[w] = reset THEN 0 ELSE wref[w]]
            /\ ppc' = [p \in Producers |->
                        IF ppc[p] = "parked" /\ pref[p] = reset THEN "returned" ELSE ppc[p]]
            /\ pexit' = [p \in Producers |->
                        IF ppc[p] = "parked" /\ pref[p] = reset THEN "reset" ELSE pexit[p]]
            /\ pref' = [p \in Producers |->
                        IF ppc[p] = "parked" /\ pref[p] = reset THEN 0 ELSE pref[p]]
            /\ resetClosed' = (resetClosed \cup {reset}) \cap HeldReset(reset, wref', pref')
            /\ hpc' = "makeReset"
    /\ owed' = [w \in Workers |-> wpc[w] = "parked" /\ wref[w] = reset]
    /\ obs' = [w \in Workers |-> 0]
    /\ downSeen' = TRUE
    /\ unseen' = [w \in Workers |->
                    wpc[w] \in {"select", "parked", "gotEv", "gotErr", "gotReset"}]
    /\ UNCHANGED <<cfgVars, wasup, reset, startSig, startClosed, doneBy, initpc, monpc,
                   retries, firstStart, writer, sref, inhand, errPending,
                   dirty, pctx, plen, pidx, submitted,
                   lastObs, credit, cancelParked, missed>>

\* HealthMakeReset without the make of lines 189 and 200: health returns and
\* the field keeps the channel it has just closed.
HealthMakeResetKeeps ==
    /\ Alive
    /\ hpc = "makeReset"
    /\ HealthReturn(FALSE)
    /\ UNCHANGED <<cfgVars, sinkVars, retries, workerVars, writeVars, submitted,
                   histVars>>

\* Lines 189-191 and 200-202: i.reset = make(chan struct{}); return err.
HealthMakeReset ==
    /\ Alive
    /\ hpc = "makeReset"
    /\ reset' = NewChan(HeldReset(reset, wref, pref))
    /\ resetClosed' = resetClosed \cap HeldReset(reset', wref, pref)
    /\ HealthReturn(FALSE)
    /\ UNCHANGED <<cfgVars, wasup, startSig, startClosed, doneBy, retries,
                   workerVars, writeVars, submitted,
                   histVars>>

\* HealthCloseStart with the close left out: startSig is only replaced.
HealthCloseStartSkipped ==
    /\ Alive
    /\ hpc = "closeStart"
    /\ hpc' = "makeStart"
    /\ downSeen' = FALSE
    /\ UNCHANGED <<cfgVars, wasup, reset, startSig, resetClosed, startClosed, doneBy,
                   initpc, monpc, retries, workerVars, writeVars, submitted,
                   lastObs, owed, obs, credit, cancelParked, missed, unseen>>

\* Lines 205 and 211: close(i.startSig).  The workers waiting on it at line
\* 222 can go on.
HealthCloseStart ==
    /\ Alive
    /\ hpc = "closeStart"
    /\ IF startSig \in startClosed
       THEN /\ hpc' = "panic"
            /\ UNCHANGED startClosed
       ELSE /\ startClosed' = startClosed \cup {startSig}
            /\ hpc' = "makeStart"
    /\ downSeen' = FALSE
    /\ credit' = [w \in Workers |->
                    IF downSeen /\ credit[w] < MaxCredit THEN credit[w] + 1 ELSE credit[w]]
    /\ UNCHANGED <<cfgVars, wasup, reset, startSig, resetClosed, doneBy, initpc, monpc,
                   retries, workerVars, writeVars, submitted,
                   lastObs, owed, obs, cancelParked, missed, unseen>>

\* Lines 206-208 and 212-214: i.startSig = make(chan struct{}); return nil.
HealthMakeStart ==
    /\ Alive
    /\ hpc = "makeStart"
    /\ startSig' = NewChan(HeldStart(startSig, sref))
    /\ startClosed' = startClosed \cap HeldStart(startSig', sref)
    /\ HealthReturn(TRUE)
    /\ missed' = [w \in Workers |->
                    \/ missed[w]
                    \/ wpc[w] = "gotReset"
                    \/ wpc[w] = "start" /\ ~firstStart[w]]
    /\ UNCHANGED <<cfgVars, wasup, reset, resetClosed, doneBy, retries,
                   workerVars, writeVars, submitted,
                   lastObs, owed, obs, downSeen, credit, cancelParked, unseen>>

----------------------------------------------------------------------------
\* Close and the lifecycle context, lines 112, 129-132, 163-168.

\* CancelLifecycle for a worker whose select does not listen to this context:
\* the context becomes done and no worker wakes.
CancelLifecycleNoWake(by) ==
    /\ Alive
    /\ ~cancelled
    /\ doneBy' = by
    /\ cancelParked' = [w \in Workers |-> wpc[w] = "parked"]
    /\ UNCHANGED <<cfgVars, wasup, reset, startSig, resetClosed, startClosed, ctlVars,
                   workerVars, writeVars, submitted, lastObs, owed, obs, downSeen,
                   credit, missed, unseen>>

\* CancelLifecycle that closes i.reset as well, to let go the Writes that wait:
\* a step outside health fires the failure signal.
CancelLifecycleClosesReset(by) ==
    /\ Alive
    /\ ~cancelled
    /\ doneBy' = by
    /\ wpc' = [w \in Workers |-> IF wpc[w] = "parked" THEN "gotDone" ELSE wpc[w]]
    /\ wref' = [w \in Workers |-> IF wpc[w] = "parked" THEN 0 ELSE wref[w]]
    /\ resetClosed' = (resetClosed \cup {reset}) \cap HeldReset(reset, wref', pref)
    /\ cancelParked' = [w \in Workers |-> wpc[w] = "parked"]
    /\ UNCHANGED <<cfgVars, wasup, reset, startSig, startClosed, ctlVars, firstStart,
                   writer, sref, inhand, errPending, dirty, writeVars, submitted,
                   lastObs, owed, obs, downSeen, credit, missed, unseen>>

\* The context of line 112 becomes done: every worker parked in its select
\* wakes with the ctx.Done case (line 229).
CancelLifecycle(by) ==
    /\ Alive
    /\ ~cancelled
    /\ doneBy' = by
    /\ wpc' = [w \in Workers |-> IF wpc[w] = "parked" THEN "gotDone" ELSE wpc[w]]
    /\ wref' = [w \in Workers |-> IF wpc[w] = "parked" THEN 0 ELSE wref[w]]
    /\ resetClosed' = resetClosed \cap HeldReset(reset, wref', pref)
    /\ cancelParked' = [w \in Workers |-> wpc[w] = "parked"]
    /\ UNCHANGED <<cfgVars, wasup, reset, startSig, startClosed, ctlVars, firstStart,
                   writer, sref, inhand, errPending, dirty, writeVars, submitted,
                   lastObs, owed, obs, downSeen, credit, missed, unseen>>

\* Lines 163-168: Close, called on an initialized output, cancels the context.
Close ==
    /\ initpc = "returned"
    /\ CancelLifecycle("Close")

\* The context handed to Init is cancelled by its owner while Init runs, which
\* cancels the context derived from it at line 112.  Once Init has returned
\* the owner's cancellation changes the output exactly as Close does, and it
\* is not a separate action.
ParentCancel ==
    /\ initpc \in {"CRCLIENT", "inHealth", "spawn"}
    /\ CancelLifecycle("parent")

----------------------------------------------------------------------------
\* worker, lines 217-245.

\* i.client.WriteAPI(...): a handle other than the one the worker held.  Only
\* whether two handles are the same is observed, so two names are enough.
NewHandle(old) == IF old = 1 THEN 2 ELSE 1

\* WorkerStart with the test of line 220 turned round: the worker waits for
\* startSig on its first pass and not on the later ones.
WorkerStartWaitsFirst(w) ==
    /\ Alive
    /\ wpc[w] = "start"
    /\ IF ~firstStart[w]
       THEN /\ writer' = [writer EXCEPT ![w] = NewHandle(writer[w])]
            /\ errPending' = [errPending EXCEPT ![w] = FALSE]
            /\ dirty' = [dirty EXCEPT ![w] = FALSE]
            /\ wpc' = [wpc EXCEPT ![w] = "select"]
            /\ UNCHANGED sref
       ELSE /\ sref' = [sref EXCEPT ![w] = startSig]
            /\ wpc' = [wpc EXCEPT ![w] = "waitStart"]
            /\ UNCHANGED <<writer, errPending, dirty>>
    /\ UNCHANGED <<cfgVars, sinkVars, ctlVars, firstStart, wref, inhand, writeVars, submitted,
                   histVars>>

\* Lines 219-225 on the first pass: firstStart is true, so the worker does not
\* wait and builds its writer.  On a later pass (line 220-222) it evaluates
\* i.startSig and starts to receive from that channel.
WorkerStart(w) ==
    /\ Alive
    /\ wpc[w] = "start"
    /\ IF firstStart[w]
       THEN /\ writer' = [writer EXCEPT ![w] = NewHandle(writer[w])]
            /\ errPending' = [errPending EXCEPT ![w] = FALSE]
            /\ dirty' = [dirty EXCEPT ![w] = FALSE]
            /\ wpc' = [wpc EXCEPT ![w] = "select"]
            /\ UNCHANGED sref
       ELSE /\ sref' = [sref EXCEPT ![w] = startSig]
            /\ wpc' = [wpc EXCEPT ![w] = "waitStart"]
            /\ UNCHANGED <<writer, errPending, dirty>>
    /\ UNCHANGED <<cfgVars, sinkVars, ctlVars, firstStart, wref, inhand, writeVars, submitted,
                   histVars>>

\* Lines 222-225: the receive from the startSig channel returns once that
\* channel is closed; the worker builds a new writer.
WorkerRecovered(w) ==
    /\ Alive
    /\ wpc[w] = "waitStart"
    /\ sref[w] \in startClosed
    /\ sref' = [sref EXCEPT ![w] = 0]
    /\ startClosed' = startClosed \cap HeldStart(startSig, sref')
    /\ writer' = [writer EXCEPT ![w] = NewHandle(writer[w])]
    /\ errPending' = [errPending EXCEPT ![w] = FALSE]
    /\ dirty' = [dirty EXCEPT ![w] = FALSE]
    /\ wpc' = [wpc EXCEPT ![w] = "select"]
    /\ lastObs' = [lastObs EXCEPT ![w] = "recovery"]
    /\ credit' = [credit EXCEPT ![w] = IF @ >= 0 THEN @ - 1 ELSE @]
    /\ UNCHANGED <<cfgVars, wasup, reset, startSig, resetClosed, doneBy, ctlVars,
                   firstStart, wref, inhand, writeVars, submitted,
                   owed, obs, downSeen, cancelParked, missed, unseen>>

\* A Write whose send was taken goes on with its loop (line 151): to the next
\* event, or out of Write when that was the last one.
WriteAdvance(p) ==
    /\ ppc' = [ppc EXCEPT ![p] = IF pidx[p] = plen[p] THEN "returned" ELSE "select"]
    /\ pexit' = [pexit EXCEPT ![p] = IF pidx[p] = plen[p] THEN "ok" ELSE pexit[p]]
    /\ pidx' = [pidx EXCEPT ![p] = pidx[p] + 1]
    /\ pref' = [pref EXCEPT ![p] = 0]
    /\ UNCHANGED <<pctx, plen>>

\* Line 228-229 on entry: the context is done.
WorkerSelectDone(w) ==
    /\ Alive
    /\ wpc[w] = "select"
    /\ cancelled
    /\ wpc' = [wpc EXCEPT ![w] = "gotDone"]
    /\ UNCHANGED <<cfgVars, sinkVars, ctlVars, firstStart, writer, wref, sref, inhand,
                   errPending, dirty, writeVars, submitted,
                   histVars>>

\* Line 235 on entry: a Write is parked in its send on eventChan; the worker
\* takes its event and the Write goes on.
WorkerSelectRecv(w, p) ==
    /\ Alive
    /\ wpc[w] = "select"
    /\ ppc[p] = "parked"
    /\ wpc' = [wpc EXCEPT ![w] = "gotEv"]
    /\ inhand' = [inhand EXCEPT ![w] = <<p, pidx[p]>>]
    /\ WriteAdvance(p)
    /\ resetClosed' = resetClosed \cap HeldReset(reset, wref, pref')
    /\ UNCHANGED <<cfgVars, wasup, reset, startSig, startClosed, doneBy, ctlVars,
                   firstStart, writer, wref, sref, errPending, dirty, submitted,
                   histVars>>

\* Line 237 on entry: the channel i.reset holds is closed already.
WorkerSelectReset(w) ==
    /\ Alive
    /\ wpc[w] = "select"
    /\ reset \in resetClosed
    /\ wpc' = [wpc EXCEPT ![w] = "gotReset"]
    /\ UNCHANGED <<cfgVars, sinkVars, ctlVars, firstStart, writer, wref, sref, inhand,
                   errPending, dirty, writeVars, submitted,
                   histVars>>

\* Line 241 on entry: the writer has an error to deliver.
WorkerSelectErr(w) ==
    /\ Alive
    /\ wpc[w] = "select"
    /\ errPending[w]
    /\ errPending' = [errPending EXCEPT ![w] = FALSE]
    /\ wpc' = [wpc EXCEPT ![w] = "gotErr"]
    /\ UNCHANGED <<cfgVars, sinkVars, ctlVars, firstStart, writer, wref, sref, inhand,
                   dirty, writeVars, submitted,
                   histVars>>

\* Line 228, no case ready: the worker parks on the four channels, the reset
\* one being the value i.reset holds now.
WorkerSelectPark(w) ==
    /\ Alive
    /\ wpc[w] = "select"
    /\ ~cancelled
    /\ ParkedWrites = {}
    /\ reset \notin resetClosed
    /\ ~errPending[w]
    /\ wpc' = [wpc EXCEPT ![w] = "parked"]
    /\ wref' = [wref EXCEPT ![w] = reset]
    /\ UNCHANGED <<cfgVars, sinkVars, ctlVars, firstStart, writer, sref, inhand,
                   errPending, dirty, writeVars, submitted,
                   histVars>>

\* Line 228: the select of the worker's loop.
WorkerSelect(w) ==
    \/ WorkerSelectDone(w)
    \/ \E p \in Producers : WorkerSelectRecv(w, p)
    \/ WorkerSelectReset(w)
    \/ WorkerSelectErr(w)
    \/ WorkerSelectPark(w)

\* Lines 229-234: the worker returns.
WorkerTerminate(w) ==
    /\ Alive
    /\ wpc[w] = "gotDone"
    /\ wpc' = [wpc EXCEPT ![w] = "terminated"]
    /\ UNCHANGED <<cfgVars, sinkVars, ctlVars, firstStart, writer, wref, sref, inhand,
                   errPending, dirty, writeVars, submitted,
                   histVars>>

\* WorkerWritePoint with the call of WritePoint left out: the received event
\* is let go.
WorkerWritePointSkips(w) ==
    /\ Alive
    /\ wpc[w] = "gotEv"
    /\ inhand' = [inhand EXCEPT ![w] = NoEvent]
    /\ wpc' = [wpc EXCEPT ![w] = "select"]
    /\ UNCHANGED <<cfgVars, sinkVars, ctlVars, firstStart, writer, wref, sref, errPending,
                   dirty, writeVars, submitted, histVars>>

\* Line 236: the received event is made a point and passed to WritePoint.
WorkerWritePoint(w) ==
    /\ Alive
    /\ wpc[w] = "gotEv"
    /\ submitted' = [submitted EXCEPT ![inhand[w]] = @ + 1]
    /\ inhand' = [inhand EXCEPT ![w] = NoEvent]
    /\ dirty' = [dirty EXCEPT ![w] = TRUE]
    /\ wpc' = [wpc EXCEPT ![w] = "select"]
    /\ UNCHANGED <<cfgVars, sinkVars, ctlVars, firstStart, writer, wref, sref, errPending,
                   writeVars,
                   histVars>>

\* Lines 237-240: firstStart = false; goto START.
WorkerReset(w) ==
    /\ Alive
    /\ wpc[w] = "gotReset"
    /\ firstStart' = [firstStart EXCEPT ![w] = FALSE]
    /\ wpc' = [wpc EXCEPT ![w] = "start"]
    /\ lastObs' = [lastObs EXCEPT ![w] = "failure"]
    /\ obs' = [obs EXCEPT ![w] = IF @ < 2 THEN @ + 1 ELSE @]
    /\ missed' = [missed EXCEPT ![w] = FALSE]
    /\ unseen' = [unseen EXCEPT ![w] = FALSE]
    /\ UNCHANGED <<cfgVars, sinkVars, ctlVars, writer, wref, sref, inhand, errPending, dirty,
                   writeVars, submitted,
                   owed, downSeen, credit, cancelParked>>

\* WorkerLogError with a return after the log: a write error ends the worker.
WorkerLogErrorReturns(w) ==
    /\ Alive
    /\ wpc[w] = "gotErr"
    /\ wpc' = [wpc EXCEPT ![w] = "terminated"]
    /\ UNCHANGED <<cfgVars, sinkVars, ctlVars, firstStart, writer, wref, sref, inhand,
                   errPending, dirty, writeVars, submitted, histVars>>

\* Lines 241-242: the error is logged and the loop goes on.
WorkerLogError(w) ==
    /\ Alive
    /\ wpc[w] = "gotErr"
    /\ wpc' = [wpc EXCEPT ![w] = "select"]
    /\ UNCHANGED <<cfgVars, sinkVars, ctlVars, firstStart, writer, wref, sref, inhand,
                   errPending, dirty, writeVars, submitted,
                   histVars>>

\* The writer fails to send the points it holds and delivers the error on
\* its Errors() channel (line 241): to the worker, if it is parked in its
\* select, and else to the channel's buffer.
WriterError(w) ==
    /\ Alive
    /\ dirty[w]
    /\ ~errPending[w]
    /\ dirty' = [dirty EXCEPT ![w] = FALSE]
    /\ IF wpc[w] = "parked"
       THEN /\ wpc' = [wpc EXCEPT ![w] = "gotErr"]
            /\ wref' = [wref EXCEPT ![w] = 0]
            /\ UNCHANGED errPending
       ELSE /\ errPending' = [errPending EXCEPT ![w] = TRUE]
            /\ UNCHANGED <<wpc, wref>>
    /\ resetClosed' = resetClosed \cap HeldReset(reset, wref', pref)
    /\ UNCHANGED <<cfgVars, wasup, reset, startSig, startClosed, doneBy, ctlVars,
                   firstStart, writer, sref, inhand, writeVars, submitted,
                   histVars>>

----------------------------------------------------------------------------
\* Write, lines 136-161.

\* Lines 137-150: the response is converted to n events.  Nothing to deliver
\* (a nil or foreign message, a failed conversion, no updates) returns.
\* Callers are alike, so they are numbered in the order of their calls.  An
\* output is written to once its Init has returned nil.
WriteCall(p, n) ==
    /\ Alive
    /\ initpc = "returned"
    /\ ppc[p] = "idle"
    /\ \A q \in Producers : q < p => ppc[q] # "idle"
    /\ plen' = [plen EXCEPT ![p] = n]
    /\ pidx' = [pidx EXCEPT ![p] = 1]
    /\ ppc' = [ppc EXCEPT ![p] = IF n = 0 THEN "returned" ELSE "select"]
    /\ pexit' = [pexit EXCEPT ![p] = IF n = 0 THEN "ok" ELSE "none"]
    /\ UNCHANGED <<cfgVars, sinkVars, ctlVars, workerVars, pctx, pref, submitted,
                   histVars>>

\* WriteSelectDone with continue for return: the event is skipped and the
\* loop goes on with the next one.
WriteSelectDoneContinues(p) ==
    /\ Alive
    /\ ppc[p] = "select"
    /\ pctx[p]
    /\ WriteAdvance(p)
    /\ UNCHANGED <<cfgVars, sinkVars, ctlVars, workerVars, submitted, histVars>>

\* Lines 153-154 on entry: the caller's context is done.
WriteSelectDone(p) ==
    /\ Alive
    /\ ppc[p] = "select"
    /\ pctx[p]
    /\ ppc' = [ppc EXCEPT ![p] = "returned"]
    /\ pexit' = [pexit EXCEPT ![p] = "ctx"]
    /\ UNCHANGED <<cfgVars, sinkVars, ctlVars, workerVars, pctx, plen, pidx, pref, submitted,
                   histVars>>

\* Lines 155-156 on entry: the channel i.reset holds is closed already.
WriteSelectReset(p) ==
    /\ Alive
    /\ ppc[p] = "select"
    /\ reset \in resetClosed
    /\ ppc' = [ppc EXCEPT ![p] = "returned"]
    /\ pexit' = [pexit EXCEPT ![p] = "reset"]
    /\ UNCHANGED <<cfgVars, sinkVars, ctlVars, workerVars, pctx, plen, pidx, pref, submitted,
                   histVars>>

\* Line 157 on entry: a worker is parked in its select; it wakes with the
\* event (line 235) and the Write goes on.
WriteSelectSend(p, w) ==
    /\ Alive
    /\ ppc[p] = "select"
    /\ wpc[w] = "parked"
    /\ wpc' = [wpc EXCEPT ![w] = "gotEv"]
    /\ inhand' = [inhand EXCEPT ![w] = <<p, pidx[p]>>]
    /\ wref' = [wref EXCEPT ![w] = 0]
    /\ WriteAdvance(p)
    /\ resetClosed' = resetClosed \cap HeldReset(reset, wref', pref')
    /\ UNCHANGED <<cfgVars, wasup, reset, startSig, startClosed, doneBy, ctlVars,
                   firstStart, writer, sref, errPending, dirty, submitted,
                   histVars>>

\* Line 152, no case ready: the Write parks on the caller's context, on the
\* value i.reset holds now and in its send on eventChan.
WriteSelectPark(p) ==
    /\ Alive
    /\ ppc[p] = "select"
    /\ ~pctx[p]
    /\ reset \notin resetClosed
    /\ ParkedWorkers = {}
    /\ ppc' = [ppc EXCEPT ![p] = "parked"]
    /\ pref' = [pref EXCEPT ![p] = reset]
    /\ UNCHANGED <<cfgVars, sinkVars, ctlVars, workerVars, pctx, plen, pidx, pexit, submitted,
                   histVars>>

\* Line 152: the select of Write's loop.
WriteSelect(p) ==
    \/ WriteSelectDone(p)
    \/ WriteSelectReset(p)
    \/ \E w \in Workers : WriteSelectSend(p, w)
    \/ WriteSelectPark(p)

\* The caller cancels the context it gave to Write, before the Write has
\* entered its select or while it is parked there; a parked Write wakes with
\* the ctx.Done case and returns (lines 153-154).
CallerCancel(p) ==
    /\ Alive
    /\ ~pctx[p]
    /\ ppc[p] \in {"select", "parked"}
    /\ pctx' = [pctx EXCEPT ![p] = TRUE]
    /\ IF ppc[p] = "parked"
       THEN /\ ppc' = [ppc EXCEPT ![p] = "returned"]
            /\ pexit' = [pexit EXCEPT ![p] = "ctx"]
            /\ pref' = [pref EXCEPT ![p] = 0]
       ELSE UNCHANGED <<ppc, pexit, pref>>
    /\ resetClosed' = resetClosed \cap HeldReset(reset, wref, pref')
    /\ UNCHANGED <<cfgVars, wasup, reset, startSig, startClosed, doneBy, ctlVars,
                   workerVars, plen, pidx, submitted,
                   histVars>>

----------------------------------------------------------------------------
\* The goroutines' steps, grouped by what a run needs for them to happen.

\* Init up to its return, the ticker, and a probe that finds the backend up.
StartAndProbeUp ==
    \/ \E d \in BOOLEAN : InitBegin(d)
    \/ InitProbe
    \/ InitSpawn
    \/ HealthCheckStart
    \/ HealthCheckTick
    \/ \E o \in {"ok", "nil"} : HealthProbe(o)
    \/ HealthCloseStart
    \/ HealthMakeStart

\* A probe that fails, and the failure signal.
ProbeDown ==
    \/ \E o \in {"err", "malformed"} : HealthProbe(o)
    \/ HealthCloseReset
    \/ HealthMakeReset

\* A worker and a Write that nothing disturbs.
WorkerRuns(w) ==
    \/ WorkerStart(w)
    \/ \E p \in Producers : WorkerSelectRecv(w, p)
    \/ WorkerSelectErr(w)
    \/ WorkerSelectPark(w)
    \/ WorkerWritePoint(w)
    \/ WorkerLogError(w)

WriteRuns(p) ==
    \/ \E w \in Workers : WriteSelectSend(p, w)
    \/ WriteSelectPark(p)

\* What they do about the failure signal,
WorkerResets(w) ==
    \/ WorkerSelectReset(w)
    \/ WorkerReset(w)
    \/ WorkerRecovered(w)

\* and about cancellation.
WorkerStops(w) ==
    \/ WorkerSelectDone(w)
    \/ WorkerTerminate(w)

\* The surroundings: callers, the writer's backend, the owners of the contexts.
Calls ==
    \/ \E p \in Producers, n \in 0 .. MaxEvents : WriteCall(p, n)
    \/ \E w \in Workers : WriterError(w)

Cancels ==
    \/ Close
    \/ ParentCancel
    \/ HealthCheckDone
    \/ \E w \in Workers : WorkerStops(w)

\* Every probe succeeds and nothing is cancelled.
NextHealthy ==
    \/ StartAndProbeUp
    \/ \E w \in Workers : WorkerRuns(w)
    \/ \E p \in Producers : WriteRuns(p)
    \/ Calls

\* Probes may fail; the output's context is not cancelled.
NextOpen ==
    \/ NextHealthy
    \/ ProbeDown
    \/ \E w \in Workers : WorkerResets(w)
    \/ \E p \in Producers : WriteSelectReset(p) \/ WriteSelectDone(p) \/ CallerCancel(p)

Next ==
    \/ NextOpen
    \/ Cancels

Spec == Init /\ [][Next]_vars

\* Scheduling.  A goroutine that can run does run (Go's scheduler is fair to
\* runnable goroutines), the ticker of line 172 keeps firing, and a probe
\* returns.  A select with several ready cases picks one at random, so a case
\* that is ready again and again is taken: the monitor, once the context is
\* done, does not take the ticker's case for ever.  Callers, the backend and
\* the owners of the contexts are under no obligation.
HealthStep ==
    \/ \E o \in ProbeOutcomes : HealthProbe(o)
    \/ HealthCloseReset
    \/ HealthMakeReset
    \/ HealthCloseStart
    \/ HealthMakeStart

Fairness ==
    /\ WF_vars((\E d \in BOOLEAN : InitBegin(d)) \/ InitProbe \/ InitSpawn)
    /\ WF_vars(HealthCheckStart \/ HealthCheckTick)
    /\ SF_vars(HealthCheckDone)
    /\ WF_vars(HealthStep)
    /\ \A w \in Workers :
          WF_vars(WorkerRuns(w) \/ WorkerResets(w) \/ WorkerStops(w))
    /\ \A p \in Producers : WF_vars(WriteSelect(p))

\* The whole system, fairly scheduled.
FairSpec == Init /\ [][Next]_vars /\ Fairness

\* Runs in which the output's context is never cancelled.
OpenSpec == Init /\ [][NextOpen]_vars /\ Fairness

\* Runs in which, besides, every probe succeeds and no caller cancels.
HealthySpec == Init /\ [][NextHealthy]_vars /\ Fairness

\* Healthy runs of an output that is handed any configuration.
ConfigSpec == InitAnyConfig /\ [][NextHealthy]_vars /\ Fairness

----------------------------------------------------------------------------
\* Properties.

\* The worker is in the loop of lines 227-244.
Running(w) == wpc[w] \in {"select", "parked", "gotEv", "gotErr"}
\* The Write is in its select with an event to deliver.
Delivering(p) == ppc[p] \in {"select", "parked"}
\* The events the call has handed to a worker.
Enqueued(p) == {<<p, i>> : i \in 1 .. (pidx[p] - 1)}
\* The events the call has not handed to a worker.
NotEnqueued(p) == {e \in Events : e[1] = p /\ e[2] >= pidx[p]}

\* C1: when every probe succeeds and nothing is cancelled, each event of a
\* Write call is submitted exactly once: no event is submitted twice, only
\* events that were enqueued are submitted, and once Write has been called
\* with n events all n are eventually submitted.
C1_EachEventSubmittedOnce ==
    /\ [](\A e \in Events : submitted[e] <= 1)
    /\ [](\A p \in Producers : \A e \in NotEnqueued(p) : submitted[e] = 0)
    /\ \A p \in Producers :
          (ppc[p] # "idle") ~> (\A i \in 1 .. plen[p] : submitted[<<p, i>>] = 1)

C1_AllSubmitted ==
    \E p \in Producers :
        /\ plen[p] = MaxEvents
        /\ ppc[p] = "returned"
        /\ \A i \in 1 .. MaxEvents : submitted[<<p, i>>] = 1

\* C2: a worker parked in its select on the reset channel when that channel
\* is closed takes the reset case for that close exactly once (it is woken
\* with the case, and runs line 238 once), and no worker has rebuilt its
\* writer more often than startSig was closed after a close of reset (once
\* for each pair of a failure and a recovery).
C2_FailureObservedOnce ==
    \A w \in Workers :
        /\ obs[w] <= 1
        /\ credit[w] >= 0
        /\ owed[w] => \/ wpc[w] = "gotReset" /\ obs[w] = 0
                      \/ obs[w] = 1

C2_ObservedAndRebuilt ==
    \E w \in Workers :
        owed[w] /\ obs[w] = 1 /\ credit[w] = 0 /\ lastObs[w] = "recovery" /\ wpc[w] = "parked"

\* C3: while the backend is down (reset has been closed and startSig has not
\* been closed since, every worker waiting for startSig), a Write that is
\* delivering an event eventually returns.
C3_WriteReturnsWhileDown ==
    \A p \in Producers :
        (/\ Delivering(p)
         /\ downSeen
         /\ \A w \in Workers : wpc[w] = "waitStart")
        ~> (ppc[p] = "returned")

\* C4: a worker's wait for startSig ends (it observes the recovery signal)
\* only when the signal it observed last was the failure signal, and it takes
\* the reset case only when the signal it observed last was not the failure
\* signal: the observations alternate and the first is of a failure.
C4_RecoveryAfterFailure ==
    [][\A w \in Workers :
        /\ (wpc[w] = "waitStart" /\ wpc'[w] # "waitStart")
              => lastObs[w] = "failure" /\ lastObs'[w] = "recovery"
        /\ (wpc[w] = "gotReset" /\ wpc'[w] # "gotReset")
              => lastObs[w] # "failure" /\ lastObs'[w] = "failure"
        /\ lastObs'[w] # lastObs[w]
              => lastObs'[w] = (IF lastObs[w] = "failure" THEN "recovery" ELSE "failure")
      ]_vars

C4_FailureRecoveryFailure ==
    \E w \in Workers : lastObs[w] = "failure" /\ writer[w] = 2

\* C5: a worker that was parked in its select when the context became done
\* submits no point from then on and eventually terminates.
C5_CancelledWorkerStops ==
    /\ [][\A w \in Workers :
            cancelParked[w] =>
                ~(wpc[w] = "gotEv" /\ submitted'[inhand[w]] # submitted[inhand[w]])]_vars
    /\ [](\A w \in Workers : cancelParked[w] => wpc[w] \in {"gotDone", "terminated"})
    /\ \A w \in Workers : cancelParked[w] ~> (wpc[w] = "terminated")

C5_TerminatedWhileOffered ==
    \E w \in Workers, p \in Producers :
        cancelParked[w] /\ wpc[w] = "terminated" /\ ppc[p] = "parked"

\* C6: the health monitor and the workers are started only by a step of Init
\* taken after a probe has succeeded; until a probe has succeeded Init is in
\* its loop of lines 113-121, however often the probe has failed.
C6_StartupGated ==
    /\ [][((monpc = "none" /\ monpc' # "none")
              \/ \E w \in Workers : wpc[w] = "none" /\ wpc'[w] # "none")
            => wasup /\ initpc = "spawn"]_vars
    /\ [](~wasup => /\ initpc \in {"start", "failed", "CRCLIENT", "inHealth"}
                    /\ monpc = "none"
                    /\ \A w \in Workers : wpc[w] = "none")
    /\ [](retries > 0 /\ ~wasup => initpc \in {"CRCLIENT", "inHealth"})

C6_SucceededAfterRetries ==
    initpc = "spawn" /\ wasup /\ retries = MaxRetries

\* C7: with the context never cancelled, a worker waiting for startSig
\* eventually runs again unless a probe fails once more, and an event a Write
\* offers while a recovered worker runs is eventually submitted unless a
\* probe fails once more or the caller cancels.
C7_RecoversWhenHealthy ==
    /\ \A w \in Workers :
          (wpc[w] = "waitStart") ~> (Running(w) \/ hpc = "closeReset")
    /\ \A w \in Workers, e \in Events :
          (/\ lastObs[w] = "recovery"
           /\ Running(w)
           /\ Delivering(e[1])
           /\ pidx[e[1]] = e[2]
           /\ hpc \notin {"closeReset", "makeReset"})
          ~> (submitted[e] = 1 \/ hpc = "closeReset" \/ pexit[e[1]] = "ctx")

C7_SubmittedAfterMissedRecovery ==
    \E w \in Workers :
        missed[w] /\ lastObs[w] = "recovery" /\ Running(w) /\ dirty[w]

\* C8: once Close has cancelled the context, the health monitor has returned
\* and every worker has terminated, a Write that is delivering an event and
\* whose caller's context is not done eventually returns, or the caller's
\* context becomes done.
C8_WriteReturnsAfterClose ==
    \A p \in Producers :
        (/\ doneBy = "Close"
         /\ monpc = "returned"
         /\ \A w \in Workers : wpc[w] = "terminated"
         /\ Delivering(p)
         /\ ~pctx[p])
        ~> (ppc[p] = "returned" \/ pctx[p])

\* C9: a worker is past its ctx.Done case only when the context is done, and
\* the step that takes a write error and the step that logs it keep the
\* worker in its loop with the writer it had and submit nothing.
C9_OnlyCancellationTerminates ==
    /\ [](\A w \in Workers : wpc[w] \in {"gotDone", "terminated"} => cancelled)
    /\ [][\A w \in Workers :
            (wpc[w] = "gotErr" \/ wpc'[w] = "gotErr")
               => /\ wpc'[w] \in {"gotErr", "select"}
                  /\ writer'[w] = writer[w]
                  /\ submitted' = submitted]_vars

C9_ErrorLoggedStillRunning ==
    \E w \in Workers : wpc[w] = "gotErr" /\ ~cancelled /\ lastObs[w] = "recovery"

\* C10: a step that ends a delivery attempt of Write either hands the event
\* to a worker and moves Write to its next event (or out, after the last), or
\* makes Write return with the event not handed over, the caller's context
\* done or the reset channel Write held closed; and no event from the first
\* one not handed over onwards is ever in a worker's hands or submitted.
C10_ThreeOutcomes ==
    /\ [][\A p \in Producers :
            (Delivering(p) /\ (ppc'[p] = "returned" \/ pidx'[p] # pidx[p]))
               => \/ /\ \E w \in Workers : inhand'[w] = <<p, pidx[p]>>
                     /\ pidx'[p] = pidx[p] + 1
                     /\ ppc'[p] = (IF pidx[p] = plen[p] THEN "returned" ELSE "select")
                     /\ pexit'[p] = (IF pidx[p] = plen[p] THEN "ok" ELSE "none")
                  \/ /\ ppc'[p] = "returned"
                     /\ pidx'[p] = pidx[p]
                     /\ \A w \in Workers : inhand'[w] # <<p, pidx[p]>>
                     /\ \/ pexit'[p] = "ctx" /\ pctx'[p]
                        \/ /\ pexit'[p] = "reset"
                           /\ IF ppc[p] = "parked"
                              THEN hpc = "closeReset" /\ pref[p] = reset
                              ELSE reset \in resetClosed]_vars
    /\ [](\A p \in Producers : \A e \in NotEnqueued(p) :
            submitted[e] = 0 /\ \A w \in Workers : inhand[w] # e)
    /\ [](\A p \in Producers : pexit[p] \in {"ctx", "reset", "ok"} => ppc[p] = "returned")

C10_DroppedAfterDelivery ==
    \E p \in Producers :
        /\ pexit[p] = "reset"
        /\ pidx[p] = 2
        /\ plen[p] = 2
        /\ submitted[<<p, 1>>] = 1

\* C11: once Init has returned without an error, each field of the
\* configuration in effect holds its default where the decoded field held the
\* zero value (http://localhost:8086, 1000, 10 s, 30 s) and the decoded value
\* where it did not.
C11_DefaultsApplied ==
    initpc = "returned" =>
        /\ Cfg.URL = (IF cfgIn.URL = "" THEN "http://localhost:8086" ELSE cfgIn.URL)
        /\ Cfg.BatchSize = (IF cfgIn.BatchSize = 0 THEN 1000 ELSE cfgIn.BatchSize)
        /\ Cfg.FlushTimer = (IF cfgIn.FlushTimer = 0 THEN 10000 ELSE cfgIn.FlushTimer)
        /\ Cfg.HealthCheckPeriod =
              (IF cfgIn.HealthCheckPeriod = 0 THEN 30000 ELSE cfgIn.HealthCheckPeriod)

C11_SomeDefaultedSomeKept ==
    /\ initpc = "returned"
    /\ cfgIn.URL = "" /\ Cfg.URL = "http://localhost:8086"
    /\ cfgIn.BatchSize = 1 /\ Cfg.BatchSize = 1
    /\ cfgIn.FlushTimer = 0 /\ Cfg.FlushTimer = 10000
    /\ cfgIn.HealthCheckPeriod = 0 - 1000 /\ Cfg.HealthCheckPeriod = 0 - 1000

\* C12: health closes the reset channel only when the latest probe before
\* this one succeeded: never before the first successful probe, and not again
\* while no successful probe has closed startSig since the last close of reset.
C12_FailureFiredOnlyFromUp ==
    /\ [](~wasup => hpc \notin {"closeReset", "makeReset"})
    /\ [][(hpc = "closeReset" /\ hpc' = "makeReset") => (wasup /\ ~downSeen)]_vars

\* C13: health closes startSig only on a successful probe that follows a
\* state that was not Up: the first successful probe (Init's) or one that
\* follows a close of reset; a successful probe of an output that is up
\* closes nothing.
C13_RecoveryFiredOncePerUp ==
    [][(hpc = "closeStart" /\ hpc' = "makeStart")
          => (initpc = "inHealth" \/ downSeen)]_vars

\* C14: no goroutine that starts to wait reads a channel that is closed
\* already: a worker at line 222 does not find startSig closed, and neither a
\* worker entering its select (line 237) nor a Write entering its select
\* (line 155) finds reset closed and takes that case for a close that came
\* before it began to wait.
C14_NeverReadsFiredInstance ==
    [][/\ \A w \in Workers :
            /\ (wpc[w] = "start" /\ wpc'[w] = "waitStart") => startSig \notin startClosed
            /\ ~(wpc[w] = "select" /\ wpc'[w] = "gotReset")
       /\ \A p \in Producers :
            ~(ppc[p] = "select" /\ pexit'[p] = "reset")]_vars

\* C15: no channel is closed twice: health never panics on a close, the
\* channel it is about to close is open, each of the fields reset and
\* startSig holds one channel, and Init's probe and the monitor's are never
\* under way together.
C15_NoDoubleClose ==
    /\ hpc # "panic"
    /\ hpc = "closeReset" => reset \notin resetClosed
    /\ hpc = "closeStart" => startSig \notin startClosed
    /\ reset \in Chans /\ startSig \in Chans
    /\ ~(initpc = "inHealth" /\ monpc = "inHealth")

C15_SecondInstanceClosed ==
    /\ hpc = "makeReset"
    /\ reset \in resetClosed
    /\ \E w \in Workers : wpc[w] = "waitStart" /\ sref[w] \in startClosed

\* C16: a worker that was in its loop when reset was closed receives no
\* further event (so submits no further point) before it has taken the reset
\* case for that close, and it eventually waits for startSig (or the context
\* is done and it is on its way out).
C16_EveryWorkerResets ==
    /\ [][\A w \in Workers :
            (wpc[w] # "gotEv" /\ wpc'[w] = "gotEv") => ~unseen[w]]_vars
    /\ \A w \in Workers :
          unseen[w] ~> (wpc[w] \in {"waitStart", "gotDone", "terminated"})

\* C17: once Close has cancelled the context, a worker that waits for
\* startSig at line 222 eventually terminates.
C17_WaitCancellable ==
    \A w \in Workers :
        (wpc[w] = "waitStart" /\ doneBy = "Close") ~> (wpc[w] = "terminated")

\* C18: when the context handed to Init is cancelled while Init is in its
\* loop of lines 113-121 and no probe has succeeded, Init eventually leaves
\* the loop, and it starts no worker.
C18_InitLeavesLoopOnCancel ==
    /\ (doneBy = "parent" /\ ~wasup /\ initpc \in {"CRCLIENT", "inHealth"})
          ~> (initpc \notin {"CRCLIENT", "inHealth"})
    /\ [][(doneBy = "parent" /\ ~wasup) => \A w \in Workers : wpc'[w] = "none"]_vars

\* C19: wasup, the channels the fields reset and startSig hold, and whether
\* those channels are closed change only in a step of health (so in no step
\* of a worker, of Write or of Close), and health is under way for exactly
\* one caller at a time, Init or the monitor.
C19_OnlyHealthWrites ==
    /\ [][(\/ wasup' # wasup
           \/ reset' # reset
           \/ startSig' # startSig
           \/ (reset' \in resetClosed') # (reset \in resetClosed)
           \/ (startSig' \in startClosed') # (startSig \in startClosed))
          => (hpc \notin {"idle", "panic"} /\ hpc' # hpc)]_vars
    /\ [](hpc # "idle" => (initpc = "inHealth") # (monpc = "inHealth"))

C19_AllActedSignalsIntact ==
    /\ doneBy = "Close"
    /\ \E p \in Producers : pexit[p] = "ok"
    /\ \E w \in Workers : wpc[w] = "terminated" /\ lastObs[w] = "recovery"
    /\ wasup
    /\ reset \notin resetClosed
    /\ startSig \notin startClosed

====
